---- MODULE Spec2Model ----
(***************************************************************************)
(* Model of registry/service_v2.go: defaultService.lookupV2Endpoints.      *)
(* Strings are sequences of one-character strings, so that prefix tests,   *)
(* concatenation and URL parsing are computed rather than assumed.         *)
(***************************************************************************)
EXTENDS Integers, Sequences, FiniteSets, TLC

VARIABLES config, hostname, endpoints, err, pc

vars == <<config, hostname, endpoints, err, pc>>

(* ---------------------------------------------------------------------- *)
(* Bounds                                                                  *)
(* ---------------------------------------------------------------------- *)
MaxMirrors == 2

(* ---------------------------------------------------------------------- *)
(* String literals                                                         *)
(* ---------------------------------------------------------------------- *)
SchemeHTTP == <<"h","t","t","p">>

SchemeHTTPS == <<"h","t","t","p","s">>

PrefixHTTP == <<"h","t","t","p",":","/","/">>

PrefixHTTPS == <<"h","t","t","p","s",":","/","/">>

HostM1 == <<"m","1">>

HostM2 == <<"m","2">>

HostR1 == <<"r","1">>

HostR2 == <<"r","2">>

\* The two sentinels and the default registry are declared elsewhere in the
\* package; only their distinctness from each other and from custom hosts matters.
DefaultNamespace == <<"d","o","c","k","e","r",".","i","o">>

IndexHostname == <<"i","n","d","e","x",".","d","o","c","k","e","r",".","i","o">>

DefaultRegistryHost == <<"r","e","g","i","s","t","r","y","-","1",".","d","o","c","k","e","r",".","i","o">>

APIVersion2 == 2

Letters == {"a","b","c","d","e","f","g","h","i","j","k","l","m","n","o","p","q","r","s","t","u","v","w","x","y","z"}

Digits == {"0","1","2","3","4","5","6","7","8","9"}

(* ---------------------------------------------------------------------- *)
(* strings.HasPrefix, strings.Index, strings.LastIndex (0 = not found)     *)
(* ---------------------------------------------------------------------- *)
HasPrefix(s, p) == Len(s) >= Len(p) /\ SubSeq(s, 1, Len(p)) = p

Index(s, c) ==
    IF \E i \in 1..Len(s) : s[i] = c
    THEN CHOOSE i \in 1..Len(s) : s[i] = c /\ \A j \in 1..(i-1) : s[j] # c
    ELSE 0

LastIndex(s, c) ==
    IF \E i \in 1..Len(s) : s[i] = c
    THEN CHOOSE i \in 1..Len(s) : s[i] = c /\ \A j \in (i+1)..Len(s) : s[j] # c
    ELSE 0

(* ---------------------------------------------------------------------- *)
(* net/url.Parse as called on line 16, for strings over                    *)
(* Letters, Digits and the characters  : / [ ] . -                         *)
(* (no upper case, '#', '?', '@', '%' or control characters).              *)
(* ---------------------------------------------------------------------- *)
NoURL == [Scheme |-> <<>>, Host |-> <<>>, Path |-> <<>>, Opaque |-> <<>>]

ParseOK(u) == [ok |-> TRUE, url |-> u, msg |-> ""]

ParseErr(m) == [ok |-> FALSE, url |-> NoURL, msg |-> m]

\* getScheme: position of the ':' ending a scheme, 0 if there is no scheme,
\* -1 for "missing protocol scheme".
RECURSIVE schemeScan(_, _)
schemeScan(s, i) ==
    IF i > Len(s) THEN 0
    ELSE IF s[i] \in Letters THEN schemeScan(s, i + 1)
    ELSE IF s[i] \in Digits \cup {"+", "-", "."}
         THEN IF i = 1 THEN 0 ELSE schemeScan(s, i + 1)
    ELSE IF s[i] = ":"
         THEN IF i = 1 THEN -1 ELSE i
    ELSE 0

validOptionalPort(port) ==
    \/ port = <<>>
    \/ /\ port[1] = ":"
       /\ \A i \in 2..Len(port) : port[i] \in Digits

parseHost(host) ==
    IF HasPrefix(host, <<"[">>)
    THEN LET i == LastIndex(host, "]") IN
         IF i = 0 THEN ParseErr("missing ']' in host")
         ELSE IF ~validOptionalPort(SubSeq(host, i + 1, Len(host)))
              THEN ParseErr("invalid port after host")
              ELSE ParseOK([NoURL EXCEPT !.Host = host])
    ELSE LET i == LastIndex(host, ":") IN
         IF i # 0 /\ ~validOptionalPort(SubSeq(host, i, Len(host)))
         THEN ParseErr("invalid port after host")
         ELSE ParseOK([NoURL EXCEPT !.Host = host])

urlParse(raw) ==
    LET k == schemeScan(raw, 1) IN
    IF k = -1 THEN ParseErr("missing protocol scheme")
    ELSE
    LET scheme == IF k = 0 THEN <<>> ELSE SubSeq(raw, 1, k - 1)
        rest   == IF k = 0 THEN raw ELSE SubSeq(raw, k + 1, Len(raw))
    IN
    IF ~HasPrefix(rest, <<"/">>) /\ scheme # <<>>
    THEN ParseOK([NoURL EXCEPT !.Scheme = scheme, !.Opaque = rest])
    ELSE IF ~HasPrefix(rest, <<"/">>) /\ Index(rest, ":") # 0
            /\ (Index(rest, "/") = 0 \/ Index(rest, ":") < Index(rest, "/"))
    THEN ParseErr("first path segment in URL cannot contain colon")
    ELSE IF HasPrefix(rest, <<"/", "/">>)
            /\ (scheme # <<>> \/ ~HasPrefix(rest, <<"/", "/", "/">>))
    THEN LET auth0 == SubSeq(rest, 3, Len(rest))
             i     == Index(auth0, "/")
             authority == IF i = 0 THEN auth0 ELSE SubSeq(auth0, 1, i - 1)
             path  == IF i = 0 THEN <<>> ELSE SubSeq(auth0, i, Len(auth0))
             h     == parseHost(authority)
         IN IF ~h.ok THEN h
            ELSE ParseOK([NoURL EXCEPT !.Scheme = scheme, !.Host = h.url.Host, !.Path = path])
    ELSE ParseOK([NoURL EXCEPT !.Scheme = scheme, !.Path = rest])

(* ---------------------------------------------------------------------- *)
(* Errors and collaborators                                                *)
(* ---------------------------------------------------------------------- *)
NoErr == [kind |-> "nil", msg |-> "", subject |-> <<>>]

\* invalidParam(err) wrapping the *url.Error{Op: "parse", URL: raw, Err: msg}
invalidParam(raw, msg) == [kind |-> "InvalidParameter", msg |-> msg, subject |-> raw]

TLSError(host) == [kind |-> "TLSConfig", msg |-> "cannot build TLS configuration", subject |-> host]

ServerDefault == [InsecureSkipVerify |-> FALSE, builtFor |-> <<>>]

DefaultV2Registry == [NoURL EXCEPT !.Scheme = SchemeHTTPS, !.Host = DefaultRegistryHost]

\* The collaborators are declared elsewhere in the package.  cfg.Insecure is the
\* set of hosts matching an insecure-registry rule, cfg.TLSFail the hosts whose
\* TLS material cannot be loaded, cfg.AllowNondist the hosts the artifact policy allows.
isSecureIndex(cfg, host) == host \notin cfg.Insecure

newTLSConfig(cfg, host, isSecure) ==
    IF host \in cfg.TLSFail
    THEN [ok |-> FALSE, tls |-> ServerDefault, err |-> TLSError(host)]
    ELSE [ok |-> TRUE, tls |-> [InsecureSkipVerify |-> ~isSecure, builtFor |-> host], err |-> NoErr]

allowNondistributableArtifacts(cfg, host) == host \in cfg.AllowNondist

APIEndpoint == [URL |-> NoURL, Version |-> 0, Mirror |-> FALSE, Official |-> FALSE,
                TrimHostname |-> FALSE, AllowNondistributableArtifacts |-> FALSE,
                TLSConfig |-> ServerDefault]

(* ---------------------------------------------------------------------- *)
(* lookupV2Endpoints                                                       *)
(* ---------------------------------------------------------------------- *)
Result(eps, e) == [endpoints |-> eps, err |-> e]

\* variant: the sentinel test also matches a custom host
isDefaultHostLoose(h) == h = DefaultNamespace \/ h = IndexHostname \/ h = HostR1

isDefaultHost(h) == h = DefaultNamespace \/ h = IndexHostname

\* variant: a schemeless mirror is given the plaintext scheme
normalizeMirrorPlain(mirror) ==
    IF ~HasPrefix(mirror, PrefixHTTP) /\ ~HasPrefix(mirror, PrefixHTTPS)
    THEN PrefixHTTP \o mirror
    ELSE mirror

normalizeMirror(mirror) ==
    IF ~HasPrefix(mirror, PrefixHTTP) /\ ~HasPrefix(mirror, PrefixHTTPS)
    THEN PrefixHTTPS \o mirror
    ELSE mirror

\* variant: TrimHostname is not set on mirror descriptors
mirrorEndpointNoTrim(mirrorURL, mirrorTLSConfig) ==
    [APIEndpoint EXCEPT !.URL = mirrorURL, !.Version = APIVersion2, !.Mirror = TRUE,
                        !.TLSConfig = mirrorTLSConfig]

mirrorEndpoint(mirrorURL, mirrorTLSConfig) ==
    [APIEndpoint EXCEPT !.URL = mirrorURL, !.Version = APIVersion2, !.Mirror = TRUE,
                        !.TrimHostname = TRUE, !.TLSConfig = mirrorTLSConfig]

\* variant: the official descriptor skips verification
officialEndpointLax ==
    [APIEndpoint EXCEPT !.URL = DefaultV2Registry, !.Version = APIVersion2, !.Official = TRUE,
                        !.TrimHostname = TRUE,
                        !.TLSConfig = [ServerDefault EXCEPT !.InsecureSkipVerify = TRUE]]

officialEndpoint ==
    [APIEndpoint EXCEPT !.URL = DefaultV2Registry, !.Version = APIVersion2, !.Official = TRUE,
                        !.TrimHostname = TRUE, !.TLSConfig = ServerDefault]

\* variant: a mirror that does not parse is skipped instead of aborting
RECURSIVE mirrorLoopSkip(_, _, _)
mirrorLoopSkip(cfg, i, eps) ==
    IF i > Len(cfg.Mirrors) THEN Result(eps, NoErr)
    ELSE
    LET mirror == normalizeMirror(cfg.Mirrors[i])
        parsed == urlParse(mirror)
    IN
    IF ~parsed.ok THEN mirrorLoopSkip(cfg, i + 1, eps)
    ELSE
    LET t == newTLSConfig(cfg, parsed.url.Host, isSecureIndex(cfg, parsed.url.Host)) IN
    IF ~t.ok THEN Result(<<>>, t.err)
    ELSE mirrorLoopSkip(cfg, i + 1, Append(eps, mirrorEndpoint(parsed.url, t.tls)))

\* variant: each mirror descriptor is put in front of the list
RECURSIVE mirrorLoopPrepend(_, _, _)
mirrorLoopPrepend(cfg, i, eps) ==
    IF i > Len(cfg.Mirrors) THEN Result(eps, NoErr)
    ELSE
    LET mirror == normalizeMirror(cfg.Mirrors[i])
        parsed == urlParse(mirror)
    IN
    IF ~parsed.ok THEN Result(<<>>, invalidParam(mirror, parsed.msg))
    ELSE
    LET t == newTLSConfig(cfg, parsed.url.Host, isSecureIndex(cfg, parsed.url.Host)) IN
    IF ~t.ok THEN Result(<<>>, t.err)
    ELSE mirrorLoopPrepend(cfg, i + 1, <<mirrorEndpoint(parsed.url, t.tls)>> \o eps)

\* the range loop of lines 12-31, from mirror i on, eps accumulated so far
RECURSIVE mirrorLoop(_, _, _)
mirrorLoop(cfg, i, eps) ==
    IF i > Len(cfg.Mirrors) THEN Result(eps, NoErr)
    ELSE
    LET mirror == normalizeMirror(cfg.Mirrors[i])
        parsed == urlParse(mirror)
    IN
    IF ~parsed.ok THEN Result(<<>>, invalidParam(mirror, parsed.msg))
    ELSE
    LET t == newTLSConfig(cfg, parsed.url.Host, isSecureIndex(cfg, parsed.url.Host)) IN
    IF ~t.ok THEN Result(<<>>, t.err)
    ELSE mirrorLoop(cfg, i + 1, Append(eps, mirrorEndpoint(parsed.url, t.tls)))

\* variant: the official registry is only added when no mirror is configured
defaultBranchMirrorsOnly(cfg) ==
    LET r == mirrorLoop(cfg, 1, <<>>) IN
    IF r.err # NoErr THEN r
    ELSE IF Len(r.endpoints) > 0 THEN r
    ELSE Result(Append(r.endpoints, officialEndpoint), NoErr)

defaultBranch(cfg) ==
    LET r == mirrorLoop(cfg, 1, <<>>) IN
    IF r.err # NoErr THEN r
    ELSE Result(Append(r.endpoints, officialEndpoint), NoErr)

customEndpoint(scheme, h, ana, tlsConfig) ==
    [APIEndpoint EXCEPT !.URL = [NoURL EXCEPT !.Scheme = scheme, !.Host = h],
                        !.Version = APIVersion2,
                        !.AllowNondistributableArtifacts = ana,
                        !.TrimHostname = TRUE,
                        !.TLSConfig = tlsConfig]

\* variant: the plaintext descriptor is appended whatever the TLS configuration
plaintextFallbackAlways(h, ana, tlsConfig) ==
    << customEndpoint(SchemeHTTP, h, ana, tlsConfig) >>

\* variant: the plaintext descriptor is built with a fresh default TLS configuration
plaintextFallbackFreshTLS(h, ana, tlsConfig) ==
    IF tlsConfig.InsecureSkipVerify
    THEN << customEndpoint(SchemeHTTP, h, ana, ServerDefault) >>
    ELSE << >>

plaintextFallback(h, ana, tlsConfig) ==
    IF tlsConfig.InsecureSkipVerify
    THEN << customEndpoint(SchemeHTTP, h, ana, tlsConfig) >>
    ELSE << >>

\* variant: a TLS configuration error is replaced by a default-TLS endpoint
customBranchFallback(cfg, h) ==
    LET t == newTLSConfig(cfg, h, isSecureIndex(cfg, h)) IN
    LET tls == IF t.ok THEN t.tls ELSE ServerDefault
        ana == allowNondistributableArtifacts(cfg, h) IN
    Result(<< customEndpoint(SchemeHTTPS, h, ana, tls) >>
               \o plaintextFallback(h, ana, tls), NoErr)

customBranch(cfg, h) ==
    LET t == newTLSConfig(cfg, h, isSecureIndex(cfg, h)) IN
    IF ~t.ok THEN Result(<<>>, t.err)
    ELSE LET ana == allowNondistributableArtifacts(cfg, h) IN
         Result(<< customEndpoint(SchemeHTTPS, h, ana, t.tls) >>
                    \o plaintextFallback(h, ana, t.tls), NoErr)

\* variant: the mirror loop runs before the hostname is examined
lookupV2EndpointsHoisted(cfg, h) ==
    LET r == mirrorLoop(cfg, 1, <<>>) IN
    IF r.err # NoErr THEN r
    ELSE IF isDefaultHost(h) THEN Result(Append(r.endpoints, officialEndpoint), NoErr)
    ELSE customBranch(cfg, h)

lookupV2Endpoints(cfg, h) ==
    IF isDefaultHost(h) THEN defaultBranch(cfg) ELSE customBranch(cfg, h)

(* ---------------------------------------------------------------------- *)
(* Inputs                                                                  *)
(* ---------------------------------------------------------------------- *)
MirrorAddrs ==
    { HostM1,                               \* "m1"
      PrefixHTTPS \o HostM1,                \* "https://m1"
      PrefixHTTP \o HostM2,                 \* "http://m2"
      HostM2 \o <<"/", "p">>,               \* "m2/p"
      PrefixHTTP \o <<"[">>,                \* "http://["
      HostR1 \o <<":", "x">> }              \* "r1:x"

RECURSIVE SeqsUpTo(_, _)
SeqsUpTo(S, n) ==
    IF n = 0 THEN { <<>> }
    ELSE LET prev == SeqsUpTo(S, n - 1) IN
         prev \cup { Append(s, x) : s \in { p \in prev : Len(p) = n - 1 }, x \in S }

MirrorLists == SeqsUpTo(MirrorAddrs, MaxMirrors)

Hostnames == { DefaultNamespace, IndexHostname, HostR1, HostR2 }

Configs ==
    [ Mirrors      : MirrorLists,
      Insecure     : SUBSET { HostM1, HostR1, DefaultRegistryHost },
      TLSFail      : SUBSET { HostM2, HostR1 },
      AllowNondist : SUBSET { HostR1 } ]

(* ---------------------------------------------------------------------- *)
(* State machine                                                           *)
(* ---------------------------------------------------------------------- *)
Init ==
    /\ config \in Configs
    /\ hostname = <<>>
    /\ endpoints = <<>>
    /\ err = NoErr
    /\ pc = "idle"

Call(h) ==
    /\ pc = "idle"
    /\ LET r == lookupV2Endpoints(config, h) IN
         /\ endpoints' = r.endpoints
         /\ err' = r.err
    /\ hostname' = h
    /\ pc' = "returned"
    /\ UNCHANGED config

Next == \E h \in Hostnames : Call(h)

Spec == Init /\ [][Next]_vars


(* ---------------------------------------------------------------------- *)
(* Properties                                                              *)
(* ---------------------------------------------------------------------- *)
Returned == pc = "returned"

Success == Returned /\ err = NoErr

NumMirrors == Len(config.Mirrors)

\* the i-th configured mirror as the loop sees it
MirrorParse(i) == urlParse(normalizeMirror(config.Mirrors[i]))

Malformed(i) == ~MirrorParse(i).ok

MirrorTLSFails(i) == MirrorParse(i).ok /\ MirrorParse(i).url.Host \in config.TLSFail

\* C1 (as stated): every descriptor with scheme http belongs to a host classified
\* insecure and carries a TLSConfig with skip-verification set.
C1_HttpOnlyInsecure ==
    Returned =>
        \A i \in 1..Len(endpoints) :
            endpoints[i].URL.Scheme = SchemeHTTP =>
                /\ endpoints[i].TLSConfig.InsecureSkipVerify
                /\ ~isSecureIndex(config, endpoints[i].URL.Host)

\* C1 (amended): a descriptor with scheme http that is not a mirror belongs to a
\* host classified insecure and has skip-verification set; a secure custom host
\* gets no http descriptor; each configured mirror yields exactly one descriptor
\* (no plaintext fallback), which may itself be http when the mirror address says so.
C1_PlaintextFallbackOnlyInsecure ==
    Returned =>
        /\ \A i \in 1..Len(endpoints) :
              (endpoints[i].URL.Scheme = SchemeHTTP /\ ~endpoints[i].Mirror) =>
                  /\ endpoints[i].TLSConfig.InsecureSkipVerify
                  /\ ~isSecureIndex(config, endpoints[i].URL.Host)
        /\ (~isDefaultHost(hostname) /\ isSecureIndex(config, hostname)) =>
              \A i \in 1..Len(endpoints) : endpoints[i].URL.Scheme # SchemeHTTP
        /\ (isDefaultHost(hostname) /\ err = NoErr) =>
              Cardinality({ i \in 1..Len(endpoints) : endpoints[i].Mirror }) = NumMirrors

C1_Witness ==
    /\ Returned
    /\ ~isDefaultHost(hostname)
    /\ hostname \in config.Insecure
    /\ Len(endpoints) = 2
    /\ endpoints[2].URL.Scheme = SchemeHTTP
    /\ NumMirrors >= 1

\* C2: a successful resolution of a sentinel hostname has (number of mirrors) + 1
\* descriptors and its last descriptor is Official.
C2_LengthAndOfficialLast ==
    (Success /\ isDefaultHost(hostname)) =>
        /\ Len(endpoints) = NumMirrors + 1
        /\ endpoints[Len(endpoints)].Official

C2_Witness ==
    /\ Success
    /\ hostname = IndexHostname
    /\ NumMirrors >= 1
    /\ Len(endpoints) = NumMirrors + 1

\* C3: in a successful sentinel resolution, descriptor i is the Mirror descriptor
\* of the i-th configured mirror, and all of them precede the official entry.
C3_MirrorOrder ==
    (Success /\ isDefaultHost(hostname)) =>
        /\ Len(endpoints) > NumMirrors
        /\ \A i \in 1..NumMirrors :
              /\ endpoints[i].Mirror
              /\ ~endpoints[i].Official
              /\ endpoints[i].URL = MirrorParse(i).url
        /\ \A i \in 1..Len(endpoints) : endpoints[i].Official => i > NumMirrors

C3_Witness ==
    /\ Success
    /\ isDefaultHost(hostname)
    /\ NumMirrors >= 2
    /\ endpoints[1].URL # endpoints[2].URL
    /\ endpoints[1].Mirror /\ endpoints[2].Mirror

\* C4: a custom hostname whose TLS configuration is built yields one https
\* descriptor when secure, and https then http when insecure, the two sharing
\* AllowNondistributableArtifacts and TLSConfig.
C4_CustomShape ==
    (Returned /\ ~isDefaultHost(hostname) /\ hostname \notin config.TLSFail) =>
        /\ err = NoErr
        /\ Len(endpoints) >= 1
        /\ endpoints[1].URL.Scheme = SchemeHTTPS
        /\ endpoints[1].URL.Host = hostname
        /\ isSecureIndex(config, hostname) => Len(endpoints) = 1
        /\ ~isSecureIndex(config, hostname) =>
              /\ Len(endpoints) = 2
              /\ endpoints[2].URL.Scheme = SchemeHTTP
              /\ endpoints[2].URL.Host = hostname
              /\ endpoints[2].AllowNondistributableArtifacts
                    = endpoints[1].AllowNondistributableArtifacts
              /\ endpoints[2].TLSConfig = endpoints[1].TLSConfig

C4_Witness ==
    /\ Success
    /\ hostname = HostR1
    /\ HostR1 \in config.Insecure
    /\ HostR1 \in config.AllowNondist
    /\ Len(endpoints) = 2
    /\ endpoints[2].AllowNondistributableArtifacts

\* C5 (as stated): if any configured mirror is malformed, a sentinel resolution
\* returns an InvalidParameter error and no list.
C5_MalformedGivesInvalidParameter ==
    (Returned /\ isDefaultHost(hostname) /\ \E i \in 1..NumMirrors : Malformed(i)) =>
        /\ err.kind = "InvalidParameter"
        /\ endpoints = <<>>

\* C5 (amended): if any configured mirror is malformed, a sentinel resolution
\* returns an error and no list; the error is InvalidParameter for the first
\* malformed mirror unless a mirror before it fails to get a TLS configuration.
C5_MalformedGivesError ==
    (Returned /\ isDefaultHost(hostname)) =>
        \A i \in 1..NumMirrors :
            (Malformed(i) /\ \A j \in 1..(i-1) : ~Malformed(j)) =>
                /\ err # NoErr
                /\ endpoints = <<>>
                /\ (\A j \in 1..(i-1) : ~MirrorTLSFails(j)) =>
                      err = invalidParam(normalizeMirror(config.Mirrors[i]), MirrorParse(i).msg)
                /\ (\E j \in 1..(i-1) : MirrorTLSFails(j)) => err.kind = "TLSConfig"

C5_Witness ==
    /\ Returned
    /\ isDefaultHost(hostname)
    /\ NumMirrors >= 2
    /\ ~Malformed(1) /\ ~MirrorTLSFails(1)
    /\ Malformed(2)
    /\ err.kind = "InvalidParameter"
    /\ endpoints = <<>>

\* C6: a call returns either a non-empty list and no error, or an error and no
\* list; an error of the TLS collaborator is returned as it was produced.
C6_ListXorError ==
    Returned =>
        /\ \/ (err = NoErr /\ Len(endpoints) >= 1)
           \/ (err # NoErr /\ endpoints = <<>>)
        /\ (~isDefaultHost(hostname) /\ hostname \in config.TLSFail) =>
              /\ err = newTLSConfig(config, hostname, isSecureIndex(config, hostname)).err
              /\ endpoints = <<>>
        /\ isDefaultHost(hostname) =>
              \A i \in 1..NumMirrors :
                  (MirrorTLSFails(i) /\ \A j \in 1..(i-1) : ~Malformed(j) /\ ~MirrorTLSFails(j)) =>
                      /\ err = newTLSConfig(config, MirrorParse(i).url.Host,
                                            isSecureIndex(config, MirrorParse(i).url.Host)).err
                      /\ endpoints = <<>>

C6_Witness ==
    /\ Returned
    /\ hostname = HostR1
    /\ HostR1 \in config.TLSFail
    /\ err = TLSError(HostR1)
    /\ endpoints = <<>>

C8_FlagsExclusive ==
    Success =>
        \A i \in 1..Len(endpoints) :
            /\ ~(endpoints[i].Mirror /\ endpoints[i].Official)
            /\ (endpoints[i].Mirror \/ endpoints[i].Official) => endpoints[i].TrimHostname

C8_Witness ==
    /\ Success
    /\ isDefaultHost(hostname)
    /\ NumMirrors >= 1
    /\ endpoints[1].Mirror /\ endpoints[1].TrimHostname
    /\ endpoints[Len(endpoints)].Official /\ endpoints[Len(endpoints)].TrimHostname

\* C9: for a sentinel hostname, replacing a mirror address X that has no http://
\* or https:// prefix by https://X gives the same outcome, and an address with
\* one of the two prefixes yields a descriptor of that scheme.
C9_SchemelessIsHttps ==
    (Returned /\ isDefaultHost(hostname)) =>
        \A i \in 1..NumMirrors :
            LET X == config.Mirrors[i] IN
            /\ (~HasPrefix(X, PrefixHTTP) /\ ~HasPrefix(X, PrefixHTTPS)) =>
                  lookupV2Endpoints([config EXCEPT !.Mirrors[i] = PrefixHTTPS \o X], hostname)
                      = Result(endpoints, err)
            /\ (HasPrefix(X, PrefixHTTP) /\ err = NoErr) => endpoints[i].URL.Scheme = SchemeHTTP
            /\ (HasPrefix(X, PrefixHTTPS) /\ err = NoErr) => endpoints[i].URL.Scheme = SchemeHTTPS

C9_Witness ==
    /\ Success
    /\ isDefaultHost(hostname)
    /\ NumMirrors >= 2
    /\ config.Mirrors[1] = HostM1
    /\ endpoints[1].URL.Scheme = SchemeHTTPS
    /\ HasPrefix(config.Mirrors[2], PrefixHTTP)
    /\ endpoints[2].URL.Scheme = SchemeHTTP

\* C10: for a custom hostname the outcome is the same under every mirror list,
\* has no Mirror or Official descriptor and is never an InvalidParameter error.
C10_CustomIgnoresMirrors ==
    (Returned /\ ~isDefaultHost(hostname)) =>
        /\ \A ms \in MirrorLists :
              lookupV2Endpoints([config EXCEPT !.Mirrors = ms], hostname) = Result(endpoints, err)
        /\ \A i \in 1..Len(endpoints) : ~endpoints[i].Mirror /\ ~endpoints[i].Official
        /\ err.kind # "InvalidParameter"

C10_Witness ==
    /\ Returned
    /\ ~isDefaultHost(hostname)
    /\ \E i \in 1..NumMirrors : Malformed(i)
    /\ \E i \in 1..NumMirrors : MirrorTLSFails(i)
    /\ err = NoErr

====
